---- MODULE Spec2Model ----
(***************************************************************************)
(* Model of the portfolio simulator of IBKR_Dispersion:                    *)
(* src/src/backtest/engine.py, class BacktestEngine.                       *)
(*                                                                         *)
(* The engine is driven by a strategy object whose generate_signals is     *)
(* called once per row of the price panel.  In this model the strategy is  *)
(* an arbitrary source of signal maps over the panel's columns; every call *)
(* is logged so that what the engine passes to it can be checked.          *)
(*                                                                         *)
(* Numbers: prices, notionals and the initial capital are powers of two    *)
(* (or small multiples), so that every float operation of the engine on    *)
(* them (/, *, +, -) is exact and integer arithmetic computes the same     *)
(* value.  The two cost rates are fractions; they are kept as integer      *)
(* numerators over RateScale and a trade's cost is held in units of        *)
(* 1/RateScale.                                                            *)
(***************************************************************************)
EXTENDS Integers, Sequences, FiniteSets, TLC

\* ------------------------------------------------------------------ bounds
\* largest number of rows of a price panel handed to run
MaxRows == 2
\* the same for the runs of SpecDeep
MaxDeepRows == 3
\* the same for the runs of SpecMissing
MaxMissingRows == 2

\* ------------------------------------------------------------- input sets
\* the columns of the price panel, in column order
Columns == <<"A", "B">>
Symbols == {Columns[k] : k \in DOMAIN Columns}
Prices == {1, 2}
Sizes == {4, 8}
DeepSizes == {4}
Sides == {"LONG", "SHORT"}
InitialCapitals == {100}
\* cost rates as numerators over RateScale: 0.001 and 0.0005
RateScale == 10000
TransactionCostRates == {10}
SlippageRates == {5}

None == [kind |-> "None"]
\* a datetime handed to run as a bound: wall-clock time and utc offset,
\* offset "naive" for a datetime without tzinfo
Naive == "naive"
DateBounds == {None,
               [kind |-> "datetime", wall |-> 2, off |-> Naive],
               [kind |-> "datetime", wall |-> 3, off |-> "+1"]}

OffsetOf(off) == IF off = "+1" THEN 1 ELSE 0

\* one row of the panel: the instant of its index entry (UTC) and the prices
PriceRows == [Symbols -> Prices]
PanelOf(rows) == [k \in DOMAIN rows |-> [date |-> k, row |-> rows[k]]]
Panels == UNION {{PanelOf(rows) : rows \in [1..n -> PriceRows]} : n \in 0..MaxRows}
DeepPanels == UNION {{PanelOf(rows) : rows \in [1..n -> PriceRows]} : n \in 0..MaxDeepRows}
MissingPanels == UNION {{PanelOf(rows) : rows \in [1..n -> PriceRows]} : n \in 0..MaxMissingRows}

\* a signal map is a dict symbol -> {side, size}; it is kept as the sequence
\* of its items in insertion order.  The maps drawn here are those over the
\* panel's columns, inserted in column order, whose signals carry one common
\* notional (the notional may differ from one call to the next)
NoSignal == [side |-> "NONE", size |-> 0]
SignalChoices ==
  UNION {[Symbols -> {NoSignal} \cup [side : Sides, size : {z}]] : z \in Sizes}
DeepSignalChoices ==
  UNION {[Symbols -> {NoSignal} \cup [side : Sides, size : {z}]] : z \in DeepSizes}
RECURSIVE ItemsOf(_, _)
ItemsOf(f, k) ==
  IF k > Len(Columns) THEN <<>>
  ELSE (IF f[Columns[k]] = NoSignal THEN <<>>
        ELSE <<[symbol |-> Columns[k], side |-> f[Columns[k]].side,
                size |-> f[Columns[k]].size]>>) \o ItemsOf(f, k + 1)
SignalMaps == {ItemsOf(f, 1) : f \in SignalChoices}
DeepSignalMaps == {ItemsOf(f, 1) : f \in DeepSignalChoices}

\* signal maps of a strategy that also signals a symbol the panel has no
\* column for, inserted before or after the panel's own symbols
Unpriced == "C"
MissingOrders == {Columns \o <<Unpriced>>, <<Unpriced>> \o Columns}
MissingSignalChoices ==
  [Symbols \cup {Unpriced} -> {NoSignal} \cup [side : Sides, size : DeepSizes]]
RECURSIVE ItemsOver(_, _, _)
ItemsOver(order, f, k) ==
  IF k > Len(order) THEN <<>>
  ELSE (IF f[order[k]] = NoSignal THEN <<>>
        ELSE <<[symbol |-> order[k], side |-> f[order[k]].side,
                size |-> f[order[k]].size]>>) \o ItemsOver(order, f, k + 1)
MissingSignalMaps ==
  {ItemsOver(order, f, 1) : order \in MissingOrders, f \in MissingSignalChoices}

Keys(d) == {d[k].symbol : k \in DOMAIN d}
Get(d, s) == d[CHOOSE k \in DOMAIN d : d[k].symbol = s]

VARIABLES
  pc,               \* "new", "loop", "returned", "raised"
  initial_capital, transaction_cost, slippage,
  positions,        \* dict symbol -> position, as its items in insertion order
  trades,           \* the trade log
  portfolio_value,  \* the equity curve
  dates,            \* the timestamp log
  prices,           \* run's local: the panel after date filtering
  it,               \* run's local: number of iterations the for loop has completed
  signals,          \* run's local: the signal map of the last step
  calls,            \* the calls made to strategy.generate_signals
  error,            \* the exception run raised, "" if none
  result,           \* what run returned
  strategy,         \* the DispersionStrategy object: its parameters and positions
  query,            \* a call of one of the strategy's functions: arguments, results
  live,             \* run_live and the broker it drives
  twin              \* the steps of this run and, in a second run, the first run

vars == <<pc, initial_capital, transaction_cost, slippage, positions, trades,
          portfolio_value, dates, prices, it, signals, calls, error, result,
          strategy, query, live, twin>>

\* DispersionStrategy.__init__: no parameter is checked.  min_correlation
\* and max_position_size are kept in hundredths
Construct(lookback_period, min_correlation, max_position_size, rebalance_frequency) ==
  [lookback_period |-> lookback_period,
   min_correlation |-> min_correlation,
   max_position_size |-> max_position_size,
   rebalance_frequency |-> rebalance_frequency,
   positions |-> <<>>]

\* the parameter defaults of DispersionStrategy.__init__
DefaultLookback == 20
DefaultMinCorrelation == 70
DefaultMaxPositionSize == 10
DefaultStrategy ==
  Construct(DefaultLookback, DefaultMinCorrelation, DefaultMaxPositionSize, "1D")

\* no function of the strategy has been called; run_live is not running
NoQuery == [kind |-> "None"]
NoLive == [pc |-> "idle"]
\* the run is not one of two runs that are compared
NoTwin == [run |-> 0]

\* __init__ seeding the equity curve with zero instead of the capital
InitSeedZero ==
  /\ pc = "new"
  /\ initial_capital \in InitialCapitals
  /\ transaction_cost \in TransactionCostRates
  /\ slippage \in SlippageRates
  /\ positions = <<>>
  /\ trades = <<>>
  /\ portfolio_value = <<0>>
  /\ dates = <<>>
  /\ prices = <<>>
  /\ it = 0
  /\ signals = <<>>
  /\ calls = <<>>
  /\ error = ""
  /\ result = None
  /\ strategy = DefaultStrategy
  /\ query = NoQuery
  /\ live = NoLive
  /\ twin = NoTwin

\* BacktestEngine.__init__
Init ==
  /\ pc = "new"
  /\ initial_capital \in InitialCapitals
  /\ transaction_cost \in TransactionCostRates
  /\ slippage \in SlippageRates
  /\ positions = <<>>
  /\ trades = <<>>
  /\ portfolio_value = <<initial_capital>>
  /\ dates = <<>>
  /\ prices = <<>>
  /\ it = 0
  /\ signals = <<>>
  /\ calls = <<>>
  /\ error = ""
  /\ result = None
  /\ strategy = DefaultStrategy
  /\ query = NoQuery
  /\ live = NoLive
  /\ twin = NoTwin

\* BacktestEngine._ensure_timezone_aware: the UTC instant of a datetime
EnsureTimezoneAware(dt) ==
  IF dt.off = Naive THEN dt.wall ELSE dt.wall - OffsetOf(dt.off)

\* the two date filters of run
FilterDates(panel, start_date, end_date) ==
  LET afterStart == IF start_date # None
                    THEN SelectSeq(panel, LAMBDA r : r.date >= EnsureTimezoneAware(start_date))
                    ELSE panel
  IN IF end_date # None
     THEN SelectSeq(afterStart, LAMBDA r : r.date <= EnsureTimezoneAware(end_date))
     ELSE afterStart

\* run up to the for loop, called with a panel and two bounds of the given sets
RunOn(panels, bounds) ==
  /\ pc = "new"
  /\ \E panel \in panels, start_date \in bounds, end_date \in bounds :
       IF Len(panel) = 0
       THEN \* prices.index[0] of an empty index
            /\ pc' = "raised"
            /\ error' = "IndexError"
            /\ UNCHANGED prices
       ELSE /\ pc' = "loop"
            /\ prices' = FilterDates(panel, start_date, end_date)
            /\ UNCHANGED error
  /\ UNCHANGED <<initial_capital, transaction_cost, slippage, positions, trades,
                 portfolio_value, dates, it, signals, calls, result>>
  /\ UNCHANGED <<strategy, query, live, twin>>

\* BacktestEngine._calculate_trade_cost, in units of 1/RateScale
CalculateTradeCost(quantity, price) ==
  LET base_cost == quantity * price
      tc == base_cost * transaction_cost
      slippage_cost == base_cost * slippage
  IN base_cost * RateScale + tc + slippage_cost

\* a closing trade that repeats the side of the position
CloseTradeSameSide(p, row, date) ==
  [date |-> date, symbol |-> p.symbol,
   side |-> IF p.side = "LONG" THEN "BUY" ELSE "SELL",
   quantity |-> p.quantity, price |-> row[p.symbol],
   cost |-> CalculateTradeCost(p.quantity, row[p.symbol])]

\* the trade appended when position p is closed
CloseTrade(p, row, date) ==
  [date |-> date, symbol |-> p.symbol,
   side |-> IF p.side = "LONG" THEN "SELL" ELSE "BUY",
   quantity |-> p.quantity, price |-> row[p.symbol],
   cost |-> CalculateTradeCost(p.quantity, row[p.symbol])]

\* first loop of _update_positions over the snapshot keys[k..] of the held
\* symbols; st is the pair [positions, trades]
RECURSIVE CloseLoop(_, _, _, _, _, _)
CloseLoop(keys, k, st, sigs, row, date) ==
  IF k > Len(keys) THEN st
  ELSE IF keys[k] \notin Keys(sigs)
       THEN CloseLoop(keys, k + 1,
                      [positions |-> SelectSeq(st.positions, LAMBDA p : p.symbol # keys[k]),
                       trades |-> Append(st.trades, CloseTrade(Get(st.positions, keys[k]), row, date))],
                      sigs, row, date)
       ELSE CloseLoop(keys, k + 1, st, sigs, row, date)

\* a position recorded with the notional as its quantity, as the live loop does
OpenPositionNotional(sig, row, date) ==
  [symbol |-> sig.symbol, quantity |-> sig.size,
   side |-> sig.side, entry_price |-> row[sig.symbol], entry_date |-> date]

\* a position whose entry price is the price worsened by the slippage rate
OpenPositionSlipped(sig, row, date) ==
  [symbol |-> sig.symbol, quantity |-> sig.size \div row[sig.symbol],
   side |-> sig.side,
   entry_price |-> row[sig.symbol] + (row[sig.symbol] * slippage) \div RateScale,
   entry_date |-> date]

\* the position recorded when a signal is opened
OpenPosition(sig, row, date) ==
  [symbol |-> sig.symbol, quantity |-> sig.size \div row[sig.symbol],
   side |-> sig.side, entry_price |-> row[sig.symbol], entry_date |-> date]

\* the trade appended when a signal is opened
OpenTrade(sig, row, date) ==
  LET quantity == sig.size \div row[sig.symbol]
  IN [date |-> date, symbol |-> sig.symbol, side |-> sig.side,
      quantity |-> quantity, price |-> row[sig.symbol],
      cost |-> CalculateTradeCost(quantity, row[sig.symbol])]

\* prices[symbol] of the second loop of _update_positions raises KeyError:
\* a signaled symbol that is not held is not a label of the price row
KeyErrorIn(pos, sigs, row) ==
  \E k \in DOMAIN sigs : sigs[k].symbol \notin Keys(pos) /\ sigs[k].symbol \notin DOMAIN row

\* second loop of _update_positions over the items sigs[k..]; the loop is
\* left at the first lookup that raises
RECURSIVE OpenLoop(_, _, _, _, _)
OpenLoop(sigs, k, st, row, date) ==
  IF k > Len(sigs) THEN st
  ELSE IF sigs[k].symbol \notin Keys(st.positions) /\ sigs[k].symbol \notin DOMAIN row
       THEN st
  ELSE IF sigs[k].symbol \notin Keys(st.positions)
       THEN OpenLoop(sigs, k + 1,
                     [positions |-> Append(st.positions, OpenPosition(sigs[k], row, date)),
                      trades |-> Append(st.trades, OpenTrade(sigs[k], row, date))],
                     row, date)
       ELSE OpenLoop(sigs, k + 1, st, row, date)

\* _update_positions without its first loop: nothing is ever closed
UpdatePositionsNoClose(pos, trd, sigs, row, date) ==
  OpenLoop(sigs, 1, [positions |-> pos, trades |-> trd], row, date)

\* _update_positions treating a held symbol as absent from the signal map
\* when drop(position, signal) holds, so that it is closed and opened again
UpdatePositionsDropping(pos, trd, sigs, row, date, drop(_, _)) ==
  LET keys == [k \in DOMAIN pos |-> pos[k].symbol]
      kept == SelectSeq(sigs, LAMBDA sg : ~(sg.symbol \in Keys(pos)
                                           /\ drop(Get(pos, sg.symbol), sg)))
      closed == CloseLoop(keys, 1, [positions |-> pos, trades |-> trd], kept, row, date)
  IN OpenLoop(sigs, 1, closed, row, date)

\* _update_positions closing on a side flip, as the live loop does
UpdatePositionsFlip(pos, trd, sigs, row, date) ==
  UpdatePositionsDropping(pos, trd, sigs, row, date, LAMBDA p, sg : p.side # sg.side)

\* _update_positions resizing a held position whose target notional changed
UpdatePositionsResize(pos, trd, sigs, row, date) ==
  UpdatePositionsDropping(pos, trd, sigs, row, date,
                          LAMBDA p, sg : p.quantity * p.entry_price # sg.size)

\* _update_positions that also books a trade for every signal it leaves held
UpdatePositionsRetrade(pos, trd, sigs, row, date) ==
  LET keys == [k \in DOMAIN pos |-> pos[k].symbol]
      closed == CloseLoop(keys, 1, [positions |-> pos, trades |-> trd], sigs, row, date)
      opened == OpenLoop(sigs, 1, closed, row, date)
      held == SelectSeq(sigs, LAMBDA sg : sg.symbol \in Keys(closed.positions))
  IN [positions |-> opened.positions,
      trades |-> opened.trades \o [k \in DOMAIN held |-> OpenTrade(held[k], row, date)]]

\* BacktestEngine._update_positions
UpdatePositions(pos, trd, sigs, row, date) ==
  LET keys == [k \in DOMAIN pos |-> pos[k].symbol]
      closed == CloseLoop(keys, 1, [positions |-> pos, trades |-> trd], sigs, row, date)
  IN OpenLoop(sigs, 1, closed, row, date)

\* BacktestEngine._calculate_portfolio_value, from positions pos[k..]
RECURSIVE MarkLoop(_, _, _, _)
MarkLoop(pos, k, value, row) ==
  IF k > Len(pos) THEN value
  ELSE MarkLoop(pos, k + 1,
                IF pos[k].side = "LONG"
                THEN value + pos[k].quantity * (row[pos[k].symbol] - pos[k].entry_price)
                ELSE value + pos[k].quantity * (pos[k].entry_price - row[pos[k].symbol]),
                row)

\* a mark to market that adds only the change since the previous row
RECURSIVE MarkLoopIncremental(_, _, _, _)
MarkLoopIncremental(pos, k, value, row) ==
  IF k > Len(pos) THEN value
  ELSE LET since == IF it = 0 \/ pos[k].entry_date = prices[it + 1].date
                    THEN pos[k].entry_price
                    ELSE prices[it].row[pos[k].symbol]
       IN MarkLoopIncremental(pos, k + 1,
                              IF pos[k].side = "LONG"
                              THEN value + pos[k].quantity * (row[pos[k].symbol] - since)
                              ELSE value + pos[k].quantity * (since - row[pos[k].symbol]),
                              row)

CalculatePortfolioValueIncremental(pos, last, row) == MarkLoopIncremental(pos, 1, last, row)

CalculatePortfolioValue(pos, last, row) == MarkLoop(pos, 1, last, row)

\* the whole panel, later rows included
LocAll(panel, date) == panel

\* prices.loc[:date]: the rows of the filtered panel up to label date
LocUpTo(panel, date) == SelectSeq(panel, LAMBDA r : r.date <= date)

\* an iteration that marks to market before _update_positions, so that a
\* position closed in the iteration still counts
StepOnMarkFirst(maps) ==
  /\ pc = "loop"
  /\ it < Len(prices)
  /\ \E sigs \in maps :
       LET date == prices[it + 1].date
           row == prices[it + 1].row
           current_prices == LocUpTo(prices, date)
           upd == UpdatePositions(positions, trades, sigs, row, date)
       IN /\ dates' = Append(dates, date)
          /\ calls' = Append(calls, [prices |-> current_prices,
                                     portfolio_value |-> portfolio_value[Len(portfolio_value)]])
          /\ signals' = sigs
          /\ positions' = upd.positions
          /\ trades' = upd.trades
          /\ IF KeyErrorIn(positions, sigs, row)
             THEN \* the KeyError leaves _update_positions and run
                  /\ pc' = "raised"
                  /\ error' = "KeyError"
                  /\ UNCHANGED <<portfolio_value, it>>
             ELSE /\ portfolio_value' =
                       Append(portfolio_value,
                              CalculatePortfolioValue(positions,
                                                      portfolio_value[Len(portfolio_value)], row))
                  /\ it' = it + 1
                  /\ UNCHANGED <<pc, error>>
  /\ UNCHANGED <<initial_capital, transaction_cost, slippage, prices, result>>
  /\ UNCHANGED <<strategy, query, live>>

\* one iteration of the for loop of run; generate_signals returns a map of
\* the given set.  What twin records of the step is left to the caller
StepOn(maps) ==
  /\ pc = "loop"
  /\ it < Len(prices)
  /\ \E sigs \in maps :
       LET date == prices[it + 1].date
           row == prices[it + 1].row
           current_prices == LocUpTo(prices, date)
           upd == UpdatePositions(positions, trades, sigs, row, date)
       IN /\ dates' = Append(dates, date)
          /\ calls' = Append(calls, [prices |-> current_prices,
                                     portfolio_value |-> portfolio_value[Len(portfolio_value)]])
          /\ signals' = sigs
          /\ positions' = upd.positions
          /\ trades' = upd.trades
          /\ IF KeyErrorIn(positions, sigs, row)
             THEN \* the KeyError leaves _update_positions and run
                  /\ pc' = "raised"
                  /\ error' = "KeyError"
                  /\ UNCHANGED <<portfolio_value, it>>
             ELSE /\ portfolio_value' =
                       Append(portfolio_value,
                              CalculatePortfolioValue(upd.positions,
                                                      portfolio_value[Len(portfolio_value)], row))
                  /\ it' = it + 1
                  /\ UNCHANGED <<pc, error>>
  /\ UNCHANGED <<initial_capital, transaction_cost, slippage, prices, result>>
  /\ UNCHANGED <<strategy, query, live>>

\* len(pd.Series(portfolio_value).pct_change().dropna()): the first entry is
\* always NaN, a later one is NaN exactly when it is 0/0
ReturnsLen(pv) ==
  Cardinality({k \in 2..Len(pv) : ~(pv[k] = 0 /\ pv[k - 1] = 0)})

\* BacktestEngine._generate_results, reached when the for loop is exhausted
GenerateResults ==
  /\ pc = "loop"
  /\ it = Len(prices)
  /\ IF ReturnsLen(portfolio_value) = 0
     THEN \* 252 / len(returns)
          /\ pc' = "raised"
          /\ error' = "ZeroDivisionError"
          /\ UNCHANGED result
     ELSE /\ pc' = "returned"
          /\ result' = [kind |-> "results", num_trades |-> Len(trades),
                        portfolio_value |-> portfolio_value, dates |-> dates,
                        trades |-> trades]
          /\ UNCHANGED error
  /\ UNCHANGED <<initial_capital, transaction_cost, slippage, positions, trades,
                 portfolio_value, dates, prices, it, signals, calls>>
  /\ UNCHANGED <<strategy, query, live, twin>>

\* runs over short panels, with signals of every size
Run == RunOn(Panels, DateBounds)
Step == StepOn(SignalMaps) /\ UNCHANGED twin
Next == Run \/ Step \/ GenerateResults
Spec == Init /\ [][Next]_vars

\* runs over longer panels, with signals of one size
RunDeep == RunOn(DeepPanels, DateBounds)
StepDeep == StepOn(DeepSignalMaps) /\ UNCHANGED twin
NextDeep == RunDeep \/ StepDeep \/ GenerateResults
SpecDeep == Init /\ [][NextDeep]_vars

\* runs in which a signal may name a symbol that has no price in the row
RunMissing == RunOn(MissingPanels, {None})
StepMissing == StepOn(MissingSignalMaps) /\ UNCHANGED twin
NextMissing == RunMissing \/ StepMissing \/ GenerateResults
SpecMissing == Init /\ [][NextMissing]_vars

\* ------------------------------------------------- the signal engine
\* src/src/strategy/dispersion.py.  A price history is a panel of up to
\* three columns; every column follows one of a few price paths, cut to the
\* history's number of rows.  Consecutive prices of a path differ by a
\* factor 1/2, 1 or 2, so that every return is -0.5, 0 or 1 and the float
\* arithmetic on returns, their sums and their products is exact.  Returns
\* are kept as integers in units of 1/RetScale.
StrategyColumns == <<"X", "Y", "Z">>
MaxHistory == 8
RetScale == 2
PricePaths ==
  {<<1, 2, 1, 2, 1, 2, 2, 1, 1, 2>>,
   <<1, 2, 1, 2, 1, 2, 1, 1, 2, 1>>,
   <<1, 2, 1, 2, 1, 2, 4, 2, 2, 1>>,
   <<2, 1, 2, 1, 2, 1, 1, 1, 2, 2>>,
   <<2, 2, 2, 2, 2, 2, 2, 2, 2, 2>>,
   <<4, 2, 1, 2, 1, 2, 1, 2, 2, 1>>,
   <<1, 1, 1, 2, 1, 2, 1, 1, 1, 1>>,
   <<1, 1, 1, 2, 1, 2, 1, 2, 2, 1>>}
Cut(path, n) == SubSeq(path, 1, IF n < Len(path) THEN n ELSE Len(path))
Histories ==
  {[columns |-> SubSeq(StrategyColumns, 1, m), rows |-> n,
    price |-> [c \in {StrategyColumns[k] : k \in 1..m} |-> Cut(path[c], n)]] :
     m \in 1..Len(StrategyColumns), n \in 0..MaxHistory,
     path \in [{StrategyColumns[k] : k \in 1..Len(StrategyColumns)} -> PricePaths]}

\* prices[c].pct_change() without its leading NaN
PctChange(path) ==
  [t \in 1..(Len(path) - 1) |-> (RetScale * (path[t + 1] - path[t])) \div path[t]]

RECURSIVE SumTo(_, _)
SumTo(x, k) == IF k = 0 THEN 0 ELSE x[k] + SumTo(x, k - 1)
Sum(x) == SumTo(x, Len(x))
Times(x, y) == [t \in DOMAIN x |-> x[t] * y[t]]
Minus(x, y) == [t \in DOMAIN x |-> x[t] - y[t]]
\* n^2 times the population variance and covariance of samples x, y
ScaledVar(x) == Len(x) * Sum(Times(x, x)) - Sum(x) * Sum(x)
ScaledCov(x, y) == Len(x) * Sum(Times(x, y)) - Sum(x) * Sum(y)

\* an entry of returns.corr(): the Pearson coefficient cov / sqrt(vx * vy),
\* NaN with fewer than two returns or a constant column
NaN == [nan |-> TRUE]
Corr(x, y) ==
  IF Len(x) < 2 \/ ScaledVar(x) = 0 \/ ScaledVar(y) = 0 THEN NaN
  ELSE [nan |-> FALSE, cov |-> ScaledCov(x, y), vx |-> ScaledVar(x), vy |-> ScaledVar(y)]

\* a / b < c / d for a, c >= 0 and b, d > 0, without forming a product
RECURSIVE FracLess(_, _, _, _)
FracLess(a, b, c, d) ==
  IF a \div b # c \div d THEN a \div b < c \div d
  ELSE IF c % d = 0 THEN FALSE
  ELSE IF a % b = 0 THEN TRUE
  ELSE FracLess(d, c % d, b, a % b)

\* abs(corr) >= min_correlation, min_correlation in hundredths
AbsAtLeast(corr, min_correlation) ==
  /\ ~corr.nan
  /\ \/ min_correlation <= 0
     \/ 10000 * corr.cov * corr.cov >= min_correlation * min_correlation * corr.vx * corr.vy

\* abs(p[2]) < abs(q[2]) for two pairs
AbsLess(p, q) ==
  FracLess(p.corr.cov * p.corr.cov, p.corr.vx * p.corr.vy,
           q.corr.cov * q.corr.cov, q.corr.vx * q.corr.vy)

\* the nested loops of find_correlated_pairs: the pairs (i, j), i < j, in
\* the order they are appended
PairIndex(m) ==
  LET RECURSIVE From(_, _)
      From(i, j) == IF i >= m THEN <<>>
                    ELSE IF j > m THEN From(i + 1, i + 2)
                    ELSE <<[i |-> i, j |-> j]>> \o From(i, j + 1)
  IN From(1, 2)

Candidates(h) ==
  [k \in DOMAIN PairIndex(Len(h.columns)) |->
     LET ij == PairIndex(Len(h.columns))[k]
         a == h.columns[ij.i]
         b == h.columns[ij.j]
     IN [asset1 |-> a, asset2 |-> b,
         corr |-> Corr(PctChange(h.price[a]), PctChange(h.price[b]))]]

\* sorted(pairs, key=abs(corr), reverse=True): stable, so pairs of equal
\* key keep the order in which they were appended
RECURSIVE InsertDesc(_, _)
InsertDesc(sorted, p) ==
  IF sorted = <<>> THEN <<p>>
  ELSE IF AbsLess(Head(sorted), p) THEN <<p>> \o sorted
  ELSE <<Head(sorted)>> \o InsertDesc(Tail(sorted), p)
RECURSIVE SortDesc(_, _)
SortDesc(pairs, k) ==
  IF k = 0 THEN <<>> ELSE InsertDesc(SortDesc(pairs, k - 1), pairs[k])

\* find_correlated_pairs returning the pairs in the order it appended them
FindCorrelatedPairsUnsorted(h, min_correlation) ==
  SelectSeq(Candidates(h), LAMBDA p : AbsAtLeast(p.corr, min_correlation))

\* DispersionStrategy.find_correlated_pairs
FindCorrelatedPairs(h, min_correlation) ==
  LET pairs == SelectSeq(Candidates(h), LAMBDA p : AbsAtLeast(p.corr, min_correlation))
  IN SortDesc(pairs, Len(pairs))

\* a float result that may be NaN
Num(n) == [nan |-> FALSE, value |-> n]

\* the largest r with r * r <= n, by bisection of lo..hi
RECURSIVE IsqrtIn(_, _, _)
IsqrtIn(n, lo, hi) ==
  IF lo = hi THEN lo
  ELSE LET mid == (lo + hi + 1) \div 2
       IN IF mid * mid <= n THEN IsqrtIn(n, mid, hi) ELSE IsqrtIn(n, lo, mid - 1)
Isqrt(n) == IsqrtIn(n, 0, 46340)

\* DispersionStrategy.calculate_position_sizes.  Every column has the same
\* number of returns, so the inverse-volatility weights are those of
\* 1 / sqrt(ScaledVar); they are kept in units of 1/WeightScale and the
\* sizes rounded down to whole units of currency.  With fewer than two
\* returns every std() is NaN; a constant column has std() 0, weight inf
\* and turns the normalised vector into NaN and 0 entries, whose capped sum
\* (skipna) is 0: every size is NaN in both cases.
WeightScale == 10000
InverseVol(x) == (100 * WeightScale) \div Isqrt(WeightScale * ScaledVar(x))
RECURSIVE SumOver(_, _, _)
SumOver(f, cols, k) == IF k = 0 THEN 0 ELSE f[cols[k]] + SumOver(f, cols, k - 1)
Min(a, b) == IF a < b THEN a ELSE b
CalculatePositionSizes(self, h, pv) ==
  LET cols == {h.columns[k] : k \in DOMAIN h.columns}
      ret == [c \in cols |-> PctChange(h.price[c])]
  IN IF h.rows < 3 \/ \E c \in cols : ScaledVar(ret[c]) = 0
     THEN [c \in cols |-> NaN]
     ELSE LET inv == [c \in cols |-> InverseVol(ret[c])]
              weights == [c \in cols |->
                            (inv[c] * WeightScale) \div SumOver(inv, h.columns, Len(h.columns))]
              capped == [c \in cols |->
                           Min(weights[c], self.max_position_size * (WeightScale \div 100))]
              total == SumOver(capped, h.columns, Len(h.columns))
          IN [c \in cols |-> Num((capped[c] * pv) \div total)]

\* z_score.iloc[-1] of the spread returns1 - returns2 against 2 and -2.
\* With N spread values, D = N * last - sum and V = ScaledVar, the last
\* z-score is (D / N) / sqrt(V / (N * (N - 1))); it is NaN when N < 2 or
\* V = 0, and both comparisons with NaN are false.
ZScore(h, asset1, asset2) ==
  LET spread == Minus(PctChange(h.price[asset1]), PctChange(h.price[asset2]))
      N == Len(spread)
  IN IF N < 2 \/ ScaledVar(spread) = 0 THEN NaN
     ELSE [nan |-> FALSE, D |-> N * spread[N] - Sum(spread), N |-> N,
           V |-> ScaledVar(spread)]
Above2(z) == ~z.nan /\ z.D > 0 /\ z.D * z.D * (z.N - 1) > 4 * z.N * z.V
BelowMinus2(z) == ~z.nan /\ z.D < 0 /\ z.D * z.D * (z.N - 1) > 4 * z.N * z.V

\* signals[symbol] = {'side': side, 'size': size}: a key already present
\* keeps its place in the dict, a new key goes last
Put(d, symbol, side, size) ==
  IF symbol \in Keys(d)
  THEN [k \in DOMAIN d |-> IF d[k].symbol = symbol
                           THEN [symbol |-> symbol, side |-> side, size |-> size]
                           ELSE d[k]]
  ELSE Append(d, [symbol |-> symbol, side |-> side, size |-> size])

\* the body of the for loop of generate_signals for one pair
EmitSwapped(sigs, h, p, position_sizes) ==
  LET z == ZScore(h, p.asset1, p.asset2)
  IN IF Above2(z)
     THEN Put(Put(sigs, p.asset1, "LONG", position_sizes[p.asset1]),
              p.asset2, "SHORT", position_sizes[p.asset2])
     ELSE IF BelowMinus2(z)
     THEN Put(Put(sigs, p.asset1, "SHORT", position_sizes[p.asset1]),
              p.asset2, "LONG", position_sizes[p.asset2])
     ELSE sigs
EmitFirstWins(sigs, h, p, position_sizes) ==
  LET z == ZScore(h, p.asset1, p.asset2)
      Keep(d, symbol, side) ==
        IF symbol \in Keys(d) THEN d ELSE Put(d, symbol, side, position_sizes[symbol])
  IN IF Above2(z) THEN Keep(Keep(sigs, p.asset1, "SHORT"), p.asset2, "LONG")
     ELSE IF BelowMinus2(z) THEN Keep(Keep(sigs, p.asset1, "LONG"), p.asset2, "SHORT")
     ELSE sigs
Emit(sigs, h, p, position_sizes) ==
  LET z == ZScore(h, p.asset1, p.asset2)
  IN IF Above2(z)
     THEN Put(Put(sigs, p.asset1, "SHORT", position_sizes[p.asset1]),
              p.asset2, "LONG", position_sizes[p.asset2])
     ELSE IF BelowMinus2(z)
     THEN Put(Put(sigs, p.asset1, "LONG", position_sizes[p.asset1]),
              p.asset2, "SHORT", position_sizes[p.asset2])
     ELSE sigs

\* the for loop of generate_signals over the first k pairs
RECURSIVE SignalLoop(_, _, _, _)
SignalLoop(h, pairs, position_sizes, k) ==
  IF k = 0 THEN <<>>
  ELSE Emit(SignalLoop(h, pairs, position_sizes, k - 1), h, pairs[k], position_sizes)

\* DispersionStrategy.generate_signals
GenerateSignals(self, h, pv) ==
  LET pairs == FindCorrelatedPairs(h, self.min_correlation)
      position_sizes == CalculatePositionSizes(self, h, pv)
  IN SignalLoop(h, pairs, position_sizes, Len(pairs))

\* ---- the strategy's functions called on a drawn price history
\* the parameters a strategy is constructed with, valid and invalid
MaxCalls == 2
LookbackPeriods == {DefaultLookback, 0}
MinCorrelations == {DefaultMinCorrelation, 0, 100, 120}
MaxPositionSizes == {DefaultMaxPositionSize, 40}
PortfolioValues == {100}
Strategies ==
  {Construct(l, DefaultMinCorrelation, DefaultMaxPositionSize, "1D") : l \in LookbackPeriods}
    \cup {Construct(DefaultLookback, c, DefaultMaxPositionSize, "1D") : c \in MinCorrelations}
    \cup {Construct(DefaultLookback, DefaultMinCorrelation, s, "1D") : s \in MaxPositionSizes}

InitSignals ==
  /\ pc = "new"
  /\ initial_capital \in InitialCapitals
  /\ transaction_cost \in TransactionCostRates
  /\ slippage \in SlippageRates
  /\ positions = <<>>
  /\ trades = <<>>
  /\ portfolio_value = <<initial_capital>>
  /\ dates = <<>>
  /\ prices = <<>>
  /\ it = 0
  /\ signals = <<>>
  /\ calls = <<>>
  /\ error = ""
  /\ result = None
  /\ strategy \in Strategies
  /\ \E h \in Histories, pv \in PortfolioValues :
       query = [kind |-> "None", prices |-> h, pv |-> pv, result |-> <<>>, repeat |-> 0]
  /\ live = NoLive
  /\ twin = NoTwin

Engine == <<pc, initial_capital, transaction_cost, slippage, positions, trades,
            portfolio_value, dates, prices, it, signals, calls, error, result,
            twin>>

\* a call of function kind on the drawn inputs: its result replaces the last
\* one and repeat counts the calls.  One of the three functions is called,
\* up to MaxCalls times in a row
Called(kind, res) == [query EXCEPT !.kind = kind, !.result = res, !.repeat = @ + 1]
MayCall(kind) == query.kind \in {"None", kind} /\ query.repeat < MaxCalls

\* strategy.find_correlated_pairs(prices), min_correlation left to default
\* to the strategy's own
FindCorrelatedPairsCall ==
  /\ MayCall("find_correlated_pairs")
  /\ query' = Called("find_correlated_pairs",
                     FindCorrelatedPairs(query.prices, strategy.min_correlation))
  /\ UNCHANGED <<Engine, strategy, live>>

\* strategy.calculate_position_sizes(prices, portfolio_value)
CalculatePositionSizesCall ==
  /\ MayCall("calculate_position_sizes")
  /\ query' = Called("calculate_position_sizes",
                     CalculatePositionSizes(strategy, query.prices, query.pv))
  /\ UNCHANGED <<Engine, strategy, live>>

\* generate_signals keeping what it emitted in self.positions and leaving
\* the symbols it holds out of its next answer
GenerateSignalsCallRecording ==
  /\ MayCall("generate_signals")
  /\ LET sigs == GenerateSignals(strategy, query.prices, query.pv)
     IN /\ query' = Called("generate_signals",
                           SelectSeq(sigs, LAMBDA g : g.symbol \notin Keys(strategy.positions)))
        /\ strategy' = [strategy EXCEPT !.positions = sigs]
  /\ UNCHANGED <<Engine, live>>

\* strategy.generate_signals(prices, portfolio_value)
GenerateSignalsCall ==
  /\ MayCall("generate_signals")
  /\ query' = Called("generate_signals",
                     GenerateSignals(strategy, query.prices, query.pv))
  /\ UNCHANGED <<Engine, strategy, live>>

NextSignals == FindCorrelatedPairsCall \/ CalculatePositionSizesCall \/ GenerateSignalsCall
SpecSignals == InitSignals /\ [][NextSignals]_vars

\* ---- run_live against a broker client
\* the market data the broker returns: the empty panel, and panels of two
\* columns and seven rows, the fewest whose last z-score can pass 2, which
\* make generate_signals emit nothing or either side for either symbol
MaxLiveCalls == 3
LivePortfolioValue == 100
LiveRows == {0, 7}
LivePaths == {<<1, 2, 1, 2, 1, 2, 2>>, <<1, 2, 1, 2, 1, 2, 1>>}
LiveHistories ==
  {[columns |-> SubSeq(StrategyColumns, 1, 2), rows |-> n,
    price |-> [c \in {StrategyColumns[k] : k \in 1..2} |-> Cut(path[c], n)]] :
     n \in LiveRows, path \in [{StrategyColumns[k] : k \in 1..2} -> LivePaths]}
LiveSymbols == {StrategyColumns[k] : k \in 1..2}
\* what the broker does in one cycle: the kind of call that raises, if any,
\* the order id place_order returns and what close_position returns
Faults == {"none", "get_market_data", "get_portfolio_value", "place_order",
           "get_last_price", "close_position"}
Brokers ==
  [fault : Faults, place_order : [LiveSymbols -> {"id", "None"}],
   close_position : [LiveSymbols -> {"True", "False"}]]

InitLive ==
  /\ pc = "new"
  /\ initial_capital \in InitialCapitals
  /\ transaction_cost \in TransactionCostRates
  /\ slippage \in SlippageRates
  /\ positions = <<>>
  /\ trades = <<>>
  /\ portfolio_value = <<initial_capital>>
  /\ dates = <<>>
  /\ prices = <<>>
  /\ it = 0
  /\ signals = <<>>
  /\ calls = <<>>
  /\ error = ""
  /\ result = None
  /\ strategy = DefaultStrategy
  /\ query = NoQuery
  /\ live = [pc |-> "idle", runs |-> 0, cycles |-> 0, signals |-> <<>>,
             log |-> <<>>, error |-> ""]
  /\ twin = NoTwin

\* del self.positions[symbol]
Delete(d, symbol) == SelectSeq(d, LAMBDA p : p.symbol # symbol)
\* an exception leaving a broker call
Raise(st, call, symbol) ==
  [st EXCEPT !.log = Append(@, [call |-> call, symbol |-> symbol, returned |-> "raised"]),
             !.raised = "ConnectionError"]

\* the body of the for loop of run_live for one signal; st is the positions,
\* the broker calls made so far and the exception raised, if any
ExecuteKeeping(st, sig, broker, now) ==
  IF st.raised # "" THEN st
  ELSE IF sig.symbol \notin Keys(st.positions)
  THEN IF broker.fault = "place_order" THEN Raise(st, "place_order", sig.symbol)
       ELSE LET placed == [st EXCEPT !.log = Append(@,
                             [call |-> "place_order", symbol |-> sig.symbol,
                              side |-> sig.side, quantity |-> sig.size,
                              returned |-> broker.place_order[sig.symbol]])]
            IN IF broker.place_order[sig.symbol] = "None" THEN placed
               ELSE IF broker.fault = "get_last_price"
               THEN Raise(placed, "get_last_price", sig.symbol)
               ELSE [placed EXCEPT
                       !.log = Append(@, [call |-> "get_last_price", symbol |-> sig.symbol,
                                          returned |-> "price"]),
                       !.positions = Append(@,
                          [symbol |-> sig.symbol, quantity |-> sig.size,
                           entry_price |-> "price", entry_time |-> now,
                           side |-> sig.side])]
  ELSE st
Execute(st, sig, broker, now) ==
  IF st.raised # "" THEN st
  ELSE IF sig.symbol \notin Keys(st.positions)
  THEN IF broker.fault = "place_order" THEN Raise(st, "place_order", sig.symbol)
       ELSE LET placed == [st EXCEPT !.log = Append(@,
                             [call |-> "place_order", symbol |-> sig.symbol,
                              side |-> sig.side, quantity |-> sig.size,
                              returned |-> broker.place_order[sig.symbol]])]
            IN IF broker.place_order[sig.symbol] = "None" THEN placed
               ELSE IF broker.fault = "get_last_price"
               THEN Raise(placed, "get_last_price", sig.symbol)
               ELSE [placed EXCEPT
                       !.log = Append(@, [call |-> "get_last_price", symbol |-> sig.symbol,
                                          returned |-> "price"]),
                       !.positions = Append(@,
                          [symbol |-> sig.symbol, quantity |-> sig.size,
                           entry_price |-> "price", entry_time |-> now,
                           side |-> sig.side])]
  ELSE IF Get(st.positions, sig.symbol).side # sig.side
  THEN IF broker.fault = "close_position" THEN Raise(st, "close_position", sig.symbol)
       ELSE [st EXCEPT
               !.log = Append(@, [call |-> "close_position", symbol |-> sig.symbol,
                                  returned |-> broker.close_position[sig.symbol]]),
               !.positions = Delete(@, sig.symbol)]
  ELSE st

\* for symbol, signal in signals.items(), over the first k signals
RECURSIVE ExecuteLoop(_, _, _, _, _)
ExecuteLoop(st, sigs, broker, now, k) ==
  IF k = 0 THEN st
  ELSE Execute(ExecuteLoop(st, sigs, broker, now, k - 1), sigs[k], broker, now)

\* time.sleep(...): the module never imports time, so the name lookup
\* raises NameError at each of the two places
Sleep == "NameError"

\* the try block of one cycle: market data, portfolio value, signals,
\* orders, and the sleep until the next rebalance; generated is what
\* self.generate_signals returns for the broker's data
TryBlock(self, generated, broker, now) ==
  LET start == [positions |-> self.positions, signals |-> <<>>, log |-> <<>>, raised |-> ""]
  IN IF broker.fault = "get_market_data" THEN Raise(start, "get_market_data", "")
     ELSE IF broker.fault = "get_portfolio_value" THEN Raise(start, "get_portfolio_value", "")
     ELSE LET done == ExecuteLoop([start EXCEPT !.signals = generated], generated,
                                  broker, now, Len(generated))
          IN IF done.raised # "" THEN done ELSE [done EXCEPT !.raised = Sleep]

\* run_live is called on a strategy whose earlier call, if any, has ended
RunLive ==
  /\ live.pc \in {"idle", "raised"}
  /\ live.runs < MaxLiveCalls
  /\ live' = [live EXCEPT !.pc = "loop", !.runs = @ + 1, !.error = ""]
  /\ UNCHANGED <<Engine, strategy, query>>

\* one iteration of while True: the try block and, when it raised, the
\* except block, whose own sleep raises out of run_live
LiveCycle ==
  /\ live.pc = "loop"
  /\ \E h \in LiveHistories :
     \E generated \in {GenerateSignals(strategy, h, LivePortfolioValue)}, broker \in Brokers :
       LET try == TryBlock(strategy, generated, broker, live.cycles + 1)
       IN /\ strategy' = [strategy EXCEPT !.positions = try.positions]
          /\ live' = [live EXCEPT
                        !.cycles = @ + 1,
                        !.signals = try.signals,
                        !.log = try.log,
                        !.pc = IF try.raised = "" THEN "loop" ELSE "raised",
                        !.error = IF try.raised = "" THEN "" ELSE Sleep]
  /\ UNCHANGED <<Engine, query>>

NextLive == RunLive \/ LiveCycle
SpecLive == InitLive /\ [][NextLive]_vars

\* ------------------------------------------- two runs that are compared
\* Two backtests on one panel, one after the other: the first run records
\* the signal map and the positions of each of its steps; then a second
\* engine is constructed and run on the same panel, its strategy returning
\* the signal maps the first run recorded, or those maps with one signal
\* taken out.

\* largest number of rows of the panel of two compared runs
MaxTwinRows == 2
TwinPanels == UNION {{PanelOf(rows) : rows \in [1..n -> PriceRows]} : n \in 1..MaxTwinRows}
\* the cost rates a second engine may be constructed with: the defaults, and
\* 0.5 to make a cost as large as a price move
RerunTransactionCostRates == TransactionCostRates \cup {5000}
RerunSlippageRates == SlippageRates \cup {5000}

\* no signal is taken out of the recorded maps
NoDrop == [symbol |-> "", step |-> 0]

\* the first of the two engines, constructed as every engine is
InitTwin ==
  /\ pc = "new"
  /\ initial_capital \in InitialCapitals
  /\ transaction_cost \in TransactionCostRates
  /\ slippage \in SlippageRates
  /\ positions = <<>>
  /\ trades = <<>>
  /\ portfolio_value = <<initial_capital>>
  /\ dates = <<>>
  /\ prices = <<>>
  /\ it = 0
  /\ signals = <<>>
  /\ calls = <<>>
  /\ error = ""
  /\ result = None
  /\ strategy = DefaultStrategy
  /\ query = NoQuery
  /\ live = NoLive
  /\ twin = [run |-> 1, steps |-> <<>>]

\* what the strategy of the second run returns at its call number step
Replayed(step) ==
  IF step = twin.drop.step
  THEN Delete(twin.first.steps[step].signals, twin.drop.symbol)
  ELSE twin.first.steps[step].signals

\* run: the second engine is handed the panel of the first
RunTwin ==
  RunOn(IF twin.run = 1 THEN TwinPanels ELSE {twin.first.prices}, {None})

\* one iteration of the for loop of run, recorded
StepTwin ==
  /\ StepOn(IF twin.run = 1 THEN DeepSignalMaps ELSE {Replayed(it + 1)})
  /\ twin' = [twin EXCEPT !.steps =
                Append(@, [signals |-> signals', positions |-> positions'])]

\* BacktestEngine(strategy, initial_capital, tc, slip) once the first run
\* has returned; the first run is kept for the comparison
Reconstruct(tc, slip, drop) ==
  /\ twin.run = 1
  /\ pc = "returned"
  /\ pc' = "new"
  /\ transaction_cost' = tc
  /\ slippage' = slip
  /\ positions' = <<>>
  /\ trades' = <<>>
  /\ portfolio_value' = <<initial_capital>>
  /\ dates' = <<>>
  /\ prices' = <<>>
  /\ it' = 0
  /\ signals' = <<>>
  /\ calls' = <<>>
  /\ error' = ""
  /\ result' = None
  /\ twin' = [run |-> 2, steps |-> <<>>, drop |-> drop,
              first |-> [prices |-> prices, steps |-> twin.steps,
                         transaction_cost |-> transaction_cost,
                         slippage |-> slippage, trades |-> trades,
                         portfolio_value |-> portfolio_value]]
  /\ UNCHANGED <<initial_capital, strategy, query, live>>

\* the second engine differs from the first in its cost rates only
ReconstructCosts ==
  \E tc \in RerunTransactionCostRates, slip \in RerunSlippageRates :
    /\ tc # transaction_cost \/ slip # slippage
    /\ Reconstruct(tc, slip, NoDrop)

NextCosts == RunTwin \/ StepTwin \/ GenerateResults \/ ReconstructCosts
SpecCosts == InitTwin /\ [][NextCosts]_vars

\* the first run opened symbol at its call number step and closed it at the
\* next: the symbol was not held before, was signaled, and was not signaled
\* at the next call
RoundTrip(symbol, step) ==
  /\ step + 1 <= Len(twin.steps)
  /\ symbol \in Keys(twin.steps[step].signals)
  /\ step > 1 => symbol \notin Keys(twin.steps[step - 1].positions)
  /\ symbol \notin Keys(twin.steps[step + 1].signals)

\* the second engine is constructed as the first; its strategy does not
\* signal the symbol of one round trip of the first run
ReconstructRoundTrip ==
  \E symbol \in Symbols, step \in 1..MaxTwinRows :
    /\ RoundTrip(symbol, step)
    /\ Reconstruct(transaction_cost, slippage, [symbol |-> symbol, step |-> step])

NextRoundTrip == RunTwin \/ StepTwin \/ GenerateResults \/ ReconstructRoundTrip
SpecRoundTrip == InitTwin /\ [][NextRoundTrip]_vars

\* ------------------------------------------------------------------ claims
\* a transition that is one iteration of the for loop, its row and its date
StepTaken == it' = it + 1
RowAt == prices[it + 1].row
DateAt == prices[it + 1].date
\* the positions of the trades a transition appended for symbol s
NewTradesOf(s) == {j \in (Len(trades) + 1)..Len(trades') : trades'[j].symbol = s}
Holds(pos, p) == \E j \in DOMAIN pos : pos[j] = p

\* C1: after every completed step the held symbols are exactly the symbols
\* of the signal map generated for that step
C1_HeldEqualsSignaled ==
  it > 0 => Keys(positions) = Keys(signals)

\* a second step has closed one of two positions opened by the first
C1_Witness ==
  /\ it = 2
  /\ Keys(positions) = {"B"}
  /\ Len(trades) = 3
  /\ Keys(signals) = {"B"}

\* C2: a held symbol signaled with the opposite side is not closed: the step
\* appends no trade for it and leaves its position record as it was
C2_FlipNotClosed ==
  [][StepTaken =>
       \A k \in DOMAIN positions :
         (/\ positions[k].symbol \in Keys(signals')
          /\ Get(signals', positions[k].symbol).side # positions[k].side)
         => /\ NewTradesOf(positions[k].symbol) = {}
            /\ Holds(positions', positions[k])]_vars

\* a position entered at an earlier step is held against an opposite signal
C2_Witness ==
  \E k \in DOMAIN positions :
    /\ positions[k].symbol \in Keys(signals)
    /\ Get(signals, positions[k].symbol).side # positions[k].side
    /\ positions[k].entry_date < dates[Len(dates)]

\* C3: a held symbol signaled with the same side is left untouched, whatever
\* the target notional of the signal
C3_SameSideUntouched ==
  [][StepTaken =>
       \A k \in DOMAIN positions :
         (/\ positions[k].symbol \in Keys(signals')
          /\ Get(signals', positions[k].symbol).side = positions[k].side)
         => /\ NewTradesOf(positions[k].symbol) = {}
            /\ Holds(positions', positions[k])]_vars

\* a position entered at an earlier step is held under a signal of the same
\* side whose notional is not the one it was entered with
C3_Witness ==
  \E k \in DOMAIN positions :
    /\ positions[k].symbol \in Keys(signals)
    /\ Get(signals, positions[k].symbol).side = positions[k].side
    /\ Get(signals, positions[k].symbol).size # positions[k].quantity * positions[k].entry_price
    /\ positions[k].entry_date < dates[Len(dates)]

\* C4: a held position whose symbol is absent from the step's signal map is
\* closed: one trade of the opposite side, the held quantity, the step's
\* price and the formula's cost is appended, and the position is removed
C4_AbsentClosed ==
  [][StepTaken =>
       \A k \in DOMAIN positions :
         LET p == positions[k] IN
         p.symbol \notin Keys(signals')
         => /\ p.symbol \notin Keys(positions')
            /\ Cardinality(NewTradesOf(p.symbol)) = 1
            /\ \A j \in NewTradesOf(p.symbol) :
                 /\ trades'[j].side = (IF p.side = "LONG" THEN "SELL" ELSE "BUY")
                 /\ trades'[j].quantity = p.quantity
                 /\ trades'[j].price = RowAt[p.symbol]
                 /\ trades'[j].date = DateAt
                 /\ trades'[j].cost = p.quantity * RowAt[p.symbol]
                                      * (RateScale + transaction_cost + slippage)]_vars

\* the last trade closed a SHORT position at a price other than its entry
C4_Witness ==
  /\ it = 2
  /\ positions = <<>>
  /\ Len(trades) = 2
  /\ trades[1].side = "SHORT"
  /\ trades[2].side = "BUY"
  /\ trades[2].symbol = trades[1].symbol
  /\ trades[2].price # trades[1].price

\* C5: a signaled symbol that is not held is opened: a position with the
\* signal's side, quantity notional / price, the step's price and date is
\* recorded and one trade with that side, quantity and price is appended
C5_SignaledOpened ==
  [][StepTaken =>
       \A k \in DOMAIN signals' :
         LET sg == signals'[k] IN
         sg.symbol \notin Keys(positions)
         => /\ sg.symbol \in Keys(positions')
            /\ Get(positions', sg.symbol).side = sg.side
            /\ Get(positions', sg.symbol).quantity * RowAt[sg.symbol] = sg.size
            /\ Get(positions', sg.symbol).entry_price = RowAt[sg.symbol]
            /\ Get(positions', sg.symbol).entry_date = DateAt
            /\ Cardinality(NewTradesOf(sg.symbol)) = 1
            /\ \A j \in NewTradesOf(sg.symbol) :
                 /\ trades'[j].side = sg.side
                 /\ trades'[j].quantity * RowAt[sg.symbol] = sg.size
                 /\ trades'[j].price = RowAt[sg.symbol]]_vars

\* a symbol closed at the first step's absence is opened at the second step,
\* at a price that makes the quantity differ from the notional
C5_Witness ==
  /\ it = 2
  /\ Len(positions) = 1
  /\ positions[1].entry_date = dates[2]
  /\ positions[1].entry_price = 2
  /\ positions[1].quantity = 4
  /\ trades[Len(trades)].symbol = positions[1].symbol
  /\ trades[Len(trades)].quantity = 4

\* C6: a step appends |closed| + |opened| trades, at most one per symbol,
\* and no transition changes or removes a trade already in the log
C6_TradeCount ==
  [][/\ Len(trades') >= Len(trades)
     /\ SubSeq(trades', 1, Len(trades)) = trades
     /\ StepTaken =>
          LET closed == Keys(positions) \ Keys(signals')
              opened == Keys(signals') \ Keys(positions)
          IN /\ Len(trades') - Len(trades) = Cardinality(closed) + Cardinality(opened)
             /\ \A s \in Symbols : Cardinality(NewTradesOf(s)) <= 1]_vars

\* the second step closed one symbol and opened another
C6_Witness ==
  /\ it = 2
  /\ Len(trades) = 3
  /\ trades[2].date = dates[2]
  /\ trades[3].date = dates[2]
  /\ trades[2].symbol # trades[3].symbol
  /\ trades[2].side \in {"SELL", "BUY"}

\* C7: the equity curve starts with the initial capital and has one sample
\* per processed timestamp after it; the timestamp log has one entry per
\* processed timestamp
C7_EquityCurveLength ==
  /\ Len(portfolio_value) = it + 1
  /\ Len(dates) = it
  /\ portfolio_value[1] = initial_capital
  /\ pc = "returned" =>
       /\ it = Len(prices)
       /\ result.portfolio_value = portfolio_value
       /\ result.dates = dates

\* run has returned after two steps that moved the portfolio value
C7_Witness ==
  /\ pc = "returned"
  /\ Len(result.portfolio_value) = 3
  /\ Len(result.dates) = 2
  /\ result.portfolio_value[3] # initial_capital

\* the unrealized profit of position p at the prices of row
Pnl(p, row) ==
  IF p.side = "LONG" THEN p.quantity * (row[p.symbol] - p.entry_price)
  ELSE p.quantity * (p.entry_price - row[p.symbol])
RECURSIVE SumPnl(_, _, _)
SumPnl(pos, idx, row) ==
  IF idx = {} THEN 0
  ELSE LET k == CHOOSE k \in idx : TRUE
       IN Pnl(pos[k], row) + SumPnl(pos, idx \ {k}, row)

\* C8: the value appended by a step is the previous value plus the full
\* unrealized profit, against its entry price, of every position held after
\* the step's reconciliation
C8_FullPnlEveryStep ==
  [][StepTaken =>
       portfolio_value'[Len(portfolio_value')] =
         portfolio_value[Len(portfolio_value)] + SumPnl(positions', DOMAIN positions', RowAt)]_vars

\* a position entered at the first step gained at the second; the price did
\* not move between the second and the third step, and the same gain was
\* added again
C8_Witness ==
  /\ it = 3
  /\ Len(positions) = 1
  /\ positions[1].entry_date = dates[1]
  /\ prices[3].row[positions[1].symbol] = prices[2].row[positions[1].symbol]
  /\ portfolio_value[3] # portfolio_value[2]
  /\ portfolio_value[4] - portfolio_value[3] = portfolio_value[3] - portfolio_value[2]

\* C9: the steps follow the rows of the filtered panel in increasing time,
\* and the k-th call of generate_signals gets exactly the rows dated up to
\* the k-th timestamp and the value recorded at the end of the step before
C9_SignalInputs ==
  /\ Len(calls) = it
  /\ \A k \in 1..it :
       /\ dates[k] = prices[k].date
       /\ k > 1 => dates[k - 1] < dates[k]
       /\ \A j \in DOMAIN prices :
            prices[j].date <= dates[k] <=> Holds(calls[k].prices, prices[j])
       /\ Len(calls[k].prices) = Cardinality({j \in DOMAIN prices : prices[j].date <= dates[k]})
       /\ calls[k].portfolio_value = portfolio_value[k]
  /\ it > 0 => calls[1].portfolio_value = initial_capital

\* the first two calls were made while later rows were in the panel, and the
\* third call got a portfolio value that the second step had changed
C9_Witness ==
  /\ it = 3
  /\ Len(prices) = 3
  /\ Len(calls[1].prices) = 1
  /\ Len(calls[2].prices) = 2
  /\ calls[3].portfolio_value # initial_capital

\* C10: a run whose panel is empty after date filtering fails with an
\* InvalidInputError.  (A panel that is empty before filtering fails
\* earlier, with the IndexError of prices.index[0].)
C10_EmptyPanelInvalidInput ==
  (pc \in {"returned", "raised"} /\ Len(prices) = 0 /\ error # "IndexError")
    => (pc = "raised" /\ error = "InvalidInputError")

\* C11: a signal whose symbol has no price in the step's row is skipped: no
\* position is opened and no trade appended for it, run does not raise, and
\* the loop goes on to the next row
C11_MissingPriceSkipped ==
  [][Len(dates') = Len(dates) + 1 =>
       \A k \in DOMAIN signals' :
         signals'[k].symbol \notin DOMAIN RowAt
         => /\ pc' = "loop"
            /\ it' = it + 1
            /\ signals'[k].symbol \notin Keys(positions')
            /\ NewTradesOf(signals'[k].symbol) = {}]_vars

\* the pairs generate_signals iterates over in the current query and the
\* sizes it reads, whether a pair emits, the side it writes for one of its
\* two assets, and the pairs of a list that write symbol s
QueryPairs == {FindCorrelatedPairs(query.prices, strategy.min_correlation)}
QuerySizes == {CalculatePositionSizes(strategy, query.prices, query.pv)}
QueryZ(p) == ZScore(query.prices, p.asset1, p.asset2)
Emits(p) == Above2(QueryZ(p)) \/ BelowMinus2(QueryZ(p))
SideFrom(p, s) ==
  IF Above2(QueryZ(p)) THEN (IF s = p.asset1 THEN "SHORT" ELSE "LONG")
  ELSE (IF s = p.asset1 THEN "LONG" ELSE "SHORT")
Emitting(pairs, s) ==
  {k \in DOMAIN pairs : Emits(pairs[k]) /\ s \in {pairs[k].asset1, pairs[k].asset2}}
Generated == query.kind = "generate_signals"

\* C12: in the map generate_signals returns, both assets of every pair whose
\* last z-score is above 2 or below -2 carry a signal, every signal's side is
\* the one such a pair writes for the symbol (z > 2: SHORT asset1, LONG
\* asset2; z < -2: LONG asset1, SHORT asset2) with the symbol's position
\* size, and a pair with any other z-score (between -2 and 2, or NaN) writes
\* nothing and clears nothing
C12_ZScoreRule ==
  Generated =>
    \A pairs \in QueryPairs, position_sizes \in QuerySizes :
      /\ \A k \in DOMAIN pairs :
           Emits(pairs[k]) => {pairs[k].asset1, pairs[k].asset2} \subseteq Keys(query.result)
      /\ \A i \in DOMAIN query.result :
           LET g == query.result[i]
           IN /\ \E k \in Emitting(pairs, g.symbol) : g.side = SideFrom(pairs[k], g.symbol)
              /\ g.size = position_sizes[g.symbol]
      /\ \A i, j \in DOMAIN query.result :
           query.result[i].symbol = query.result[j].symbol => i = j
\* a pair that emits, and a pair whose z-score is exactly 2 and emits
\* nothing although one of its assets carries the other pair's signal
C12_Witness ==
  /\ Generated
  /\ \E pairs \in QueryPairs :
       /\ \E k \in DOMAIN pairs : Emits(pairs[k])
       /\ \E k \in DOMAIN pairs :
            LET z == QueryZ(pairs[k])
            IN /\ ~z.nan /\ z.D > 0 /\ z.D * z.D * (z.N - 1) = 4 * z.N * z.V
               /\ {pairs[k].asset1, pairs[k].asset2} \cap Keys(query.result) # {}

\* C13: a symbol several emitting pairs write keeps the signal of the last
\* of them in the order of find_correlated_pairs, and none of them has a
\* smaller abs(correlation) than that pair
C13_LastWriteWins ==
  Generated =>
    \A pairs \in QueryPairs :
      \A i \in DOMAIN query.result :
        \A writers \in {Emitting(pairs, query.result[i].symbol)} :
          \A last \in {k \in writers : \A l \in writers : l <= k} :
            /\ query.result[i].side = SideFrom(pairs[last], query.result[i].symbol)
            /\ \A l \in writers : ~AbsLess(pairs[l], pairs[last])
\* a symbol two pairs write with different sides
C13_Witness ==
  /\ Generated
  /\ \E pairs \in QueryPairs :
       \E i \in DOMAIN query.result :
         \E k, l \in Emitting(pairs, query.result[i].symbol) :
           /\ k < l
           /\ SideFrom(pairs[k], query.result[i].symbol)
                # SideFrom(pairs[l], query.result[i].symbol)
           /\ AbsLess(pairs[l], pairs[k])

\* the pairs the nested loops of the current query go through
Found == query.kind = "find_correlated_pairs"
QueryCandidates == {Candidates(query.prices)}
SamePair(p, q) == p.asset1 = q.asset1 /\ p.asset2 = q.asset2
\* every returned pair meets the threshold, and every pair (i < j) that
\* meets it is returned exactly once
ThresholdOnce(candidates) ==
  /\ \A k \in DOMAIN query.result :
       /\ AbsAtLeast(query.result[k].corr, strategy.min_correlation)
       /\ \E c \in DOMAIN candidates : candidates[c] = query.result[k]
  /\ \A c \in DOMAIN candidates :
       AbsAtLeast(candidates[c].corr, strategy.min_correlation) =>
         Cardinality({k \in DOMAIN query.result :
                        SamePair(query.result[k], candidates[c])}) = 1

\* C14 as stated: the pairs find_correlated_pairs returns meet the
\* threshold, each pair (i < j) meeting it is returned exactly once, and
\* abs(correlation) strictly decreases along the returned list
C14_StrictlySorted ==
  Found =>
    \A candidates \in QueryCandidates :
      /\ ThresholdOnce(candidates)
      /\ \A k \in 1..(Len(query.result) - 1) :
           AbsLess(query.result[k + 1], query.result[k])

\* C14 amended: the pairs find_correlated_pairs returns meet the threshold,
\* each pair (i < j) meeting it is returned exactly once, abs(correlation)
\* never increases along the returned list, and pairs of equal
\* abs(correlation) stay in the order the nested loops found them
C14_SortedDescending ==
  Found =>
    \A candidates \in QueryCandidates :
      /\ ThresholdOnce(candidates)
      /\ \A k \in 1..(Len(query.result) - 1) :
           /\ ~AbsLess(query.result[k], query.result[k + 1])
           /\ ~AbsLess(query.result[k + 1], query.result[k]) =>
                \E c, d \in DOMAIN candidates :
                  /\ c < d
                  /\ candidates[c] = query.result[k]
                  /\ candidates[d] = query.result[k + 1]
\* three pairs are returned, not in the order the loops found them, two
\* neighbours with equal abs(correlation) and two with different ones
C14_Witness ==
  /\ Found
  /\ Len(query.result) = 3
  /\ {query.result} # QueryCandidates
  /\ \E k \in 1..2 : ~AbsLess(query.result[k + 1], query.result[k])
  /\ \E k \in 1..2 : AbsLess(query.result[k + 1], query.result[k])

\* C15: no size calculate_position_sizes returns, and so no size of a
\* signal, is above max_position_size * portfolio_value (max_position_size
\* is in hundredths; a NaN size is not counted as above the cap)
AtMostCap(size) ==
  size.nan \/ 100 * size.value <= strategy.max_position_size * query.pv
C15_SizeAtMostCap ==
  /\ query.kind = "calculate_position_sizes" =>
       \A c \in DOMAIN query.result : AtMostCap(query.result[c])
  /\ Generated =>
       \A k \in DOMAIN query.result : AtMostCap(query.result[k].size)

CycleTaken == live'.cycles = live.cycles + 1
CycleLog == {live'.log[k] : k \in DOMAIN live'.log}
HeldBefore(s) == s \in Keys(strategy.positions)
HeldAfter(s) == s \in Keys(strategy'.positions)

\* C17 (its part on the recorded positions): after a cycle, a symbol whose
\* place_order returned no order id has no recorded position, and a symbol
\* whose close_position returned false still has the position it had
C17_SoftFailureKeepsPositions ==
  [][CycleTaken =>
       \A e \in CycleLog :
         /\ e.call = "place_order" /\ e.returned = "None" => ~HeldAfter(e.symbol)
         /\ e.call = "close_position" /\ e.returned = "False" =>
              /\ HeldAfter(e.symbol)
              /\ Get(strategy'.positions, e.symbol) = Get(strategy.positions, e.symbol)]_vars

\* C18: no exception ever leaves run_live
C18_NeverPropagates == live.pc # "raised"

\* the signals of a cycle that meet a held position of the other side
Flipped ==
  {k \in DOMAIN live'.signals :
     /\ HeldBefore(live'.signals[k].symbol)
     /\ Get(strategy.positions, live'.signals[k].symbol).side # live'.signals[k].side}
Closes(s) == {e \in CycleLog : e.call = "close_position" /\ e.symbol = s}
Opens(s) == {e \in CycleLog : e.call = "place_order" /\ e.symbol = s}
\* a broker call made for one of the signals before signal k, or the
\* close_position of signal k itself, raised
RaisedUpTo(k) ==
  \E e \in CycleLog :
    /\ e.returned = "raised"
    /\ \E j \in 1..k : live'.signals[j].symbol = e.symbol
    /\ e.symbol = live'.signals[k].symbol => e.call = "close_position"

C20_ValidParameters ==
  /\ strategy.lookback_period > 0
  /\ strategy.min_correlation >= 0
  /\ strategy.min_correlation <= 100

\* the second of two compared runs, at any of its steps
SecondRun == twin.run = 2
\* two trades that agree in every field but the cost
SameButCost(t, u) == [t EXCEPT !.cost = 0] = [u EXCEPT !.cost = 0]

\* C21: trade costs are recorded in the trade log only.  A second run on the
\* same panel and the same signal maps, with another transaction cost rate
\* or slippage rate, has at every step the equity curve and the positions
\* of the first run, and its trades are those of the first run in every
\* field but the cost.
C21_CostsOnlyInTradeLog ==
  (SecondRun /\ twin.drop = NoDrop) =>
    /\ portfolio_value = SubSeq(twin.first.portfolio_value, 1, Len(portfolio_value))
    /\ \A k \in DOMAIN twin.steps :
         twin.steps[k].positions = twin.first.steps[k].positions
    /\ Len(trades) <= Len(twin.first.trades)
    /\ \A k \in DOMAIN trades : SameButCost(trades[k], twin.first.trades[k])
    /\ pc = "returned" => Len(trades) = Len(twin.first.trades)
\* the second run has returned with other rates; its trades cost otherwise
\* than those of the first run, a position was held over a price move, and
\* a position is still held
C21_Witness ==
  /\ SecondRun /\ twin.drop = NoDrop /\ pc = "returned"
  /\ transaction_cost # twin.first.transaction_cost
  /\ slippage # twin.first.slippage
  /\ trades # <<>>
  /\ \A k \in DOMAIN trades : trades[k].cost # twin.first.trades[k].cost
  /\ portfolio_value[Len(portfolio_value)] # initial_capital
  /\ positions # <<>>

\* the symbol and the step of the round trip that the second run leaves out
Dropped == twin.drop.symbol
DroppedAt == twin.drop.step
\* C22: a position opened at one step and closed at the next leaves no trace
\* in the equity curve, whatever the prices: a second run whose strategy
\* does not signal the symbol at the opening step has the equity curve of
\* the first at every step, and the positions of the first but for the
\* position of the round trip.
C22_RoundTripLeavesNoTrace ==
  (SecondRun /\ twin.drop # NoDrop) =>
    /\ portfolio_value = SubSeq(twin.first.portfolio_value, 1, Len(portfolio_value))
    /\ \A k \in DOMAIN twin.steps :
         twin.steps[k].positions =
           IF k = DroppedAt THEN Delete(twin.first.steps[k].positions, Dropped)
           ELSE twin.first.steps[k].positions
\* the second run has returned; the first run opened the symbol and closed
\* it at the next step after its price had moved, while the equity curve
\* moved with another position
C22_Witness ==
  /\ SecondRun /\ twin.drop # NoDrop /\ pc = "returned"
  /\ Dropped \in Keys(twin.first.steps[DroppedAt].positions)
  /\ Dropped \notin Keys(twin.first.steps[DroppedAt + 1].positions)
  /\ prices[DroppedAt].row[Dropped] # prices[DroppedAt + 1].row[Dropped]
  /\ Len(twin.first.trades) = Len(trades) + 2
  /\ portfolio_value[Len(portfolio_value)] # initial_capital
====
